---- MODULE Spec2Model ----
(***************************************************************************)
(* Model of the k-fold cross-validation pipeline:                          *)
(*   src/cross_validation.py  - fold loop, epoch loop, checkpoint rule,    *)
(*                              early stopping, per-fold and final report  *)
(*   src/src/data/loader.py   - CustomDataLoader.__getitem__, collators    *)
(*                                                                         *)
(* Floating point losses are modelled in tenths (0.5 -> 5), np.Inf as a    *)
(* value above every loss.  The numerics of the network (training step,    *)
(* forward pass, loss, metrics) are inputs of the epoch: each epoch draws  *)
(* its mean validation loss and mean 3D overlap score from small sets.     *)
(***************************************************************************)
EXTENDS Integers, Sequences, FiniteSets, TLC

VARIABLES
  \* ---- fold orchestrator (src/cross_validation.py) ----
  pc,                    \* position of the script
  fold,                  \* loop variable of the fold loop (0-based)
  epoch,                 \* loop variable of the epoch loop (0-based)
  epoch_start,           \* returned by load_ckp
  loaded_loss_min,       \* valid_loss_min as returned by load_ckp at fold start
  valid_loss_min,
  valid_iou_min,
  epochs_no_improve,
  total_valid_loss,      \* entries appended during the current fold
  total_valid_3d_score,  \* entries appended during the current fold
  improved,              \* per epoch of the current fold: was the branch of line 244 taken
  broke,                 \* the break of line 280 was executed in the current fold
  min_ious,
  ckp_best,              \* content of bestmodel_fold<fold+1>.pt
  ckp_snaps,             \* names of the snapshot files written in the current fold
  saved,                 \* per epoch of the current fold: the save_ckp calls it made
  load_calls,            \* file names load_ckp was called with in the current fold
  loaded_ckp,            \* what load_ckp found under that name (NoCkp: no file)
  model,                 \* the model/optimizer objects in use: where created, from what
  printed,               \* last line written to the console
  summary_args,          \* arguments evaluated for the final summary line
  recording,             \* the fold reports of this run are kept for comparison
  fold_reports,          \* when recording: every fold's report with how its loop ended
  \* ---- k-fold split (src/cross_validation.py, lines 39-63) ----
  n_files,               \* len(files)
  n_splits,              \* k_folds as given to KFold
  shuffled,              \* the index array after KFold's seeded shuffle
  split_fold,            \* folds yielded by kfold.split so far
  train_ids,             \* of the fold yielded last
  dev_ids,               \* of the fold yielded last
  dev_seen,              \* the dev_ids of every fold yielded so far
  listed_files,          \* list_files(train_dir), in the order the directory gives
  listed_labels,         \* list_files(labels_dir)
  files,                 \* line 39
  labels,                \* line 40
  files_train,           \* lines 60-63, of the fold yielded last
  labels_train,
  files_dev,
  labels_dev,
  \* ---- dataset adapter (src/src/data/loader.py, CustomDataLoader) ----
  ipc,                   \* "ready", "returned" (last __getitem__ returned), "error"
  called,                \* the method called last on the adapter
  raised,                \* the exception that call raised, "none" if it returned
  ds,                    \* the adapter's fields set by __init__
  affine_rng,            \* generator RandomAffine draws from: "random" or "torch"
  py_rng,                \* state of Python's global random generator
  torch_rng,             \* state of torch's global generator
  in_img,                \* img as loaded in the last call (line 45)
  in_label,              \* label as loaded in the last call (line 47)
  last_seed,             \* seed drawn in the last call (line 55)
  rng_at_img,            \* generator states when the image chain started
  rng_at_label,          \* generator states when the label chain started
  img_params,            \* affine parameters drawn in the image chain
  label_params,          \* affine parameters drawn in the label chain
  ret_img,               \* returned img: one entry per depth slice
  ret_label,             \* returned label: one entry per depth slice
  \* ---- batching (loader.py collators, cross_validation.py lines 185-196) ----
  bpc,                   \* "fetch", "collated", "permuted", "inferred", "error"
  loader_kind,           \* "none" until the first fetch, then "train" (custom_collate),
                         \* "train_permute" (custom_collate_permute) or "valid"
  batch,                 \* the examples fetched for the next batch
  collated,              \* [data, target] as returned by the collate function
  output                 \* the restacked predictions of the validation loop

orchVars == <<pc, fold, epoch, epoch_start, loaded_loss_min, valid_loss_min,
              valid_iou_min, epochs_no_improve, total_valid_loss,
              total_valid_3d_score, improved, broke, min_ious, ckp_best,
              ckp_snaps, saved, load_calls, loaded_ckp, model, printed,
              summary_args, recording, fold_reports>>

splitVars == <<n_files, n_splits, shuffled, split_fold, train_ids, dev_ids, dev_seen,
               listed_files, listed_labels, files, labels, files_train,
               labels_train, files_dev, labels_dev>>

itemVars == <<ipc, called, raised, ds, affine_rng, py_rng, torch_rng, in_img, in_label, last_seed,
              rng_at_img, rng_at_label, img_params, label_params, ret_img, ret_label>>

batchVars == <<bpc, loader_kind, batch, collated, output>>

vars == <<orchVars, splitVars, itemVars, batchVars>>

----------------------------------------------------------------------------
\* Configuration (settings module) and input domains

k_folds == 2
num_epochs == 4
max_epochs_no_improve == 2
MaxCkpEpoch == 1
MaxFiles == 4                    \* largest number of volume files considered
MaxDepth == 4                    \* largest depth of a loaded volume
MaxSeed == 3                     \* seeds and generator states are 0..MaxSeed
MaxBatch == 3                    \* largest number of volumes in a batch
MaxPerm == 4                     \* largest number of slices of a permuted batch

LossValues == {4, 5, 6}          \* mean validation losses 0.4, 0.5, 0.6
ScoreValues == {1, 2}            \* mean 3D overlap scores
CkpLossValues == {5}             \* best validation loss held by a checkpoint on disk
Inf == 99                        \* np.Inf
NaN == -1                        \* np.nan (result of np.std over a list holding inf)
NoCkp == [fold |-> 0, epoch |-> 0, valid_loss_min |-> Inf]
NoLine == <<>>
NoModel == [created_in |-> -1, weights |-> <<"none", 0, 0>>]
FormatError == <<"ValueError">>

Last(s) == s[Len(s)]

----------------------------------------------------------------------------
\* Python str.format on a template given as its tokens: "t" a run of plain
\* text, "{" and "}" the brace characters.  "{}" is an automatic field,
\* "{{" and "}}" are escaped braces, a single "}" raises ValueError.

RECURSIVE FormatFrom(_, _, _, _, _)
FormatFrom(template, args, i, argi, out) ==
  IF i > Len(template) THEN out
  ELSE LET tok == template[i]
           nxt == IF i < Len(template) THEN template[i + 1] ELSE "end"
       IN CASE tok = "t" -> FormatFrom(template, args, i + 1, argi, Append(out, "t"))
            [] tok = "{" /\ nxt = "{" ->
                 FormatFrom(template, args, i + 2, argi, Append(out, "{"))
            [] tok = "{" /\ nxt = "}" /\ argi <= Len(args) ->
                 FormatFrom(template, args, i + 2, argi + 1, Append(out, args[argi]))
            [] tok = "}" /\ nxt = "}" ->
                 FormatFrom(template, args, i + 2, argi, Append(out, "}"))
            [] OTHER -> FormatError

PyFormat(template, args) == FormatFrom(template, args, 1, 1, <<>>)

\* "###########Min Valid Loss: {}, Min Valid 3D IoU: {}###########"
FoldReportTemplate == <<"t", "{", "}", "t", "{", "}", "t">>
\* "########### Average 3D IoU over folds: {}+-{}}###########"
FinalReportTemplate == <<"t", "{", "}", "t", "{", "}", "}", "t">>

----------------------------------------------------------------------------
\* numpy mean and standard deviation of a list, kept exact: the mean as the
\* pair <<sum, n>>, the standard deviation by its square <<n*sumsq - sum^2, n^2>>.

RECURSIVE SumSeq(_)
SumSeq(s) == IF s = <<>> THEN 0 ELSE s[1] + SumSeq(Tail(s))

RECURSIVE SumSqSeq(_)
SumSqSeq(s) == IF s = <<>> THEN 0 ELSE s[1] * s[1] + SumSqSeq(Tail(s))

HasInf(s) == \E i \in 1..Len(s) : s[i] = Inf

NpMean(s) == IF s = <<>> THEN <<NaN, 0>>
             ELSE IF HasInf(s) THEN <<Inf, 1>>
             ELSE <<SumSeq(s), Len(s)>>

NpStd(s) == IF s = <<>> \/ HasInf(s) THEN <<NaN, 0>>
            ELSE <<Len(s) * SumSqSeq(s) - SumSeq(s) * SumSeq(s), Len(s) * Len(s)>>

----------------------------------------------------------------------------
\* Checkpoint store (src/utils/utils.py is not part of the sources)

\* What may lie on disk under bestmodel_fold<f>.pt when fold f starts.
CkpOnDisk(f) ==
  {NoCkp} \cup [fold : {f}, epoch : 1..MaxCkpEpoch, valid_loss_min : CkpLossValues]

\* save_ckp(state, is_best, checkpoint_path, best_model_path): state is
\* written to checkpoint_path and, when is_best, to best_model_path too.
save_ckp(call, store) ==
  [best |-> IF call.is_best THEN call.state ELSE store.best,
   snaps |-> store.snaps \cup {call.checkpoint_path}]

\* lines 262-267 and 147: the file names, with fold + 1 and epoch + 1
SnapshotName(f, e) == <<"fold", f + 1, "_epoch", e + 1, ".pt">>
BestModelNameZeroBased(f) == <<"bestmodel_fold", f, ".pt">>
BestModelName(f) == <<"bestmodel_fold", f + 1, ".pt">>

\* lines 253-259: the checkpoint dictionary (the two state blobs left out)
CheckpointOf(f, e, loss) ==
  [fold |-> f + 1, epoch |-> e + 1, valid_loss_min |-> loss]

\* lines 244-267: the save_ckp calls of an epoch; the one call stands inside
\* the branch of line 244
SaveCallsAlways(imp, f, e, loss) ==
  << [state |-> CheckpointOf(f, e, loss), is_best |-> TRUE,
      checkpoint_path |-> SnapshotName(f, e),
      best_model_path |-> BestModelName(f)] >>
SaveCalls(imp, f, e, loss) ==
  IF imp
  THEN << [state |-> CheckpointOf(f, e, loss), is_best |-> TRUE,
           checkpoint_path |-> SnapshotName(f, e),
           best_model_path |-> BestModelName(f)] >>
  ELSE <<>>

RECURSIVE RunSaves(_, _)
RunSaves(calls, store) ==
  IF calls = <<>> THEN store
  ELSE RunSaves(Tail(calls), save_ckp(calls[1], store))

\* load_ckp: the checkpoint's epoch and best validation loss; a missing file
\* means epoch 0 and no best validation loss yet.
load_ckp(file) ==
  IF file = NoCkp THEN [epoch_start |-> 0, valid_loss_min |-> Inf]
  ELSE [epoch_start |-> file.epoch, valid_loss_min |-> file.valid_loss_min]

----------------------------------------------------------------------------
\* Decisions of the epoch loop

\* line 244: if total_valid_loss[-1] <= valid_loss_min
IsImprovedStrict(loss, best) == loss < best
IsImproved(loss, best) == loss <= best

\* line 279: if epochs_no_improve > max_epochs_no_improve: break
EarlyStopAtMax(count) == count >= max_epochs_no_improve
EarlyStop(count) == count > max_epochs_no_improve

\* lines 270 and 276: epochs_no_improve after the epoch
NoImproveNeverReset(imp, old) == old + 1
NewNoImprove(imp, old) == IF imp THEN 0 ELSE old + 1

\* line 271, with its else branch: valid_loss_min after the epoch
NewLossMin(imp, loss, old) == IF imp THEN loss ELSE old

\* line 140: epochs_no_improve = 0 at the start of every fold
CarriedNoImprove(prev) == prev
FreshNoImprove(prev) == 0

\* lines 127-128: model = UNet(...), optimizer = Adam(...) inside the fold
\* loop; line 147: both are then passed through load_ckp
NewModel(f, found) ==
  [created_in |-> f,
   weights |-> IF found = NoCkp THEN <<"untrained", 0, 0>>
               ELSE <<"checkpoint", found.fold, found.epoch>>]

\* line 272, with its else branch: valid_iou_min after the epoch
LastEpochIou(imp, score, old) == score
NewValidIou(imp, score, old) == IF imp THEN score ELSE old

\* line 149: range(epoch_start, epoch_start + num_epochs)
EpochRangeFromZero(start) == num_epochs
EpochRangeEnd(start) == start + num_epochs

----------------------------------------------------------------------------
\* sklearn KFold(n_splits, shuffle=True, random_state=seed).split(files):
\* the indices 0..n-1 are shuffled, cut into n_splits consecutive blocks of
\* n // k elements, the first n % k blocks one element longer; a fold's
\* test indices are one block, its train indices all others, both ascending.

FoldSizeFloor(n, k, i) == n \div k
FoldSize(n, k, i) == (n \div k) + (IF i < n % k THEN 1 ELSE 0)

RECURSIVE FoldStart(_, _, _)
FoldStart(n, k, i) == IF i = 0 THEN 0 ELSE FoldStart(n, k, i - 1) + FoldSize(n, k, i - 1)

TestBlock(perm, n, k, i) ==
  {perm[j + 1] : j \in FoldStart(n, k, i)..(FoldStart(n, k, i) + FoldSize(n, k, i) - 1)}

RECURSIVE Ascending(_)
Ascending(S) ==
  IF S = {} THEN <<>>
  ELSE LET m == CHOOSE x \in S : \A y \in S : x <= y
       IN <<m>> \o Ascending(S \ {m})

Permutations0(n) ==
  {p \in [1..n -> 0..(n - 1)] : \A i, j \in 1..n : p[i] = p[j] => i = j}

SplitIdle ==
  /\ n_files = 0
  /\ n_splits = 0
  /\ shuffled = <<>>
  /\ split_fold = 0
  /\ train_ids = <<>>
  /\ dev_ids = <<>>
  /\ dev_seen = <<>>
  /\ listed_files = <<>>
  /\ listed_labels = <<>>
  /\ files = <<>>
  /\ labels = <<>>
  /\ files_train = <<>>
  /\ labels_train = <<>>
  /\ files_dev = <<>>
  /\ labels_dev = <<>>

\* File names are numbers ordered like the names: volume v has the image
\* file 10v+1 and the label file 10v+2.  A directory lists its files in
\* ascending or in descending order.
FileName(kind, v) == 10 * v + kind
DirListings(kind, n) ==
  { [j \in 1..n |-> FileName(kind, j)], [j \in 1..n |-> FileName(kind, n + 1 - j)] }

\* lines 39-40: sorted(...)
AsListed(s) == s
sorted(s) == Ascending({s[j] : j \in 1..Len(s)})

\* lines 60-63: [files[idx] for idx in ids], [labels[idx] for idx in ids]
FilesAt(list, ids) == [j \in 1..Len(ids) |-> list[ids[j] + 1]]
LabelsAtNext(list, ids) == [j \in 1..Len(ids) |-> list[((ids[j] + 1) % Len(list)) + 1]]
LabelsAt(list, ids) == [j \in 1..Len(ids) |-> list[ids[j] + 1]]

\* loader.py lines 33-34 and 42-43: the adapter keeps the two lists and
\* reads both at the same idx
PairAt(adapter_files, adapter_labels, idx) ==
  [img_name |-> adapter_files[idx + 1], label_name |-> adapter_labels[idx + 1]]

\* lines 39-43: the file lists and the KFold object
SplitInit ==
  /\ n_files \in 2..MaxFiles
  /\ n_splits \in 2..n_files
  /\ shuffled \in Permutations0(n_files)
  /\ split_fold = 0
  /\ train_ids = <<>>
  /\ dev_ids = <<>>
  /\ dev_seen = <<>>
  /\ listed_files \in DirListings(1, n_files)
  /\ listed_labels \in DirListings(2, n_files)
  /\ files = sorted(listed_files)
  /\ labels = sorted(listed_labels)
  /\ files_train = <<>>
  /\ labels_train = <<>>
  /\ files_dev = <<>>
  /\ labels_dev = <<>>

\* lines 57-63: the next (train_ids, dev_ids) of kfold.split(files) and the
\* file lists selected with them
SplitNext ==
  /\ split_fold < n_splits
  /\ LET test == TestBlock(shuffled, n_files, n_splits, split_fold) IN
       /\ dev_ids' = Ascending(test)
       /\ train_ids' = Ascending((0..(n_files - 1)) \ test)
       /\ dev_seen' = Append(dev_seen, dev_ids')
  /\ files_train' = FilesAt(files, train_ids')
  /\ labels_train' = LabelsAt(labels, train_ids')
  /\ files_dev' = FilesAt(files, dev_ids')
  /\ labels_dev' = LabelsAt(labels, dev_ids')
  /\ split_fold' = split_fold + 1
  /\ UNCHANGED <<n_files, n_splits, shuffled, listed_files, listed_labels, files, labels>>
  /\ UNCHANGED <<orchVars, itemVars, batchVars>>

----------------------------------------------------------------------------
\* CustomDataLoader (src/src/data/loader.py).  A volume is the sequence of
\* its depth slices.  A label slice is the tuple of its voxels; an image
\* slice is identified by its depth index in the file.

LabelPlanes == {<<0, 0>>, <<0, 1>>, <<1, 1>>}
Seeds == 0..MaxSeed
ImageFill == -1024               \* fill of the image's RandomAffine
LabelFill == 0                   \* fill of the label's RandomAffine
NoParams == <<>>

LabelVolumes == UNION {[1..d -> LabelPlanes] : d \in 1..MaxDepth}
ImageOfDepth(d) == [i \in 1..d |-> i]

\* truth value of a Python tuple: true unless it is empty
PyTruthy(t) == Len(t) > 0

\* line 51: (label != 0).any((0, 1))
NonBlanks(label) ==
  [d \in 1..Len(label) |-> \E v \in 1..Len(label[d]) : label[d][v] # 0]

\* arr[:, :, mask] for a boolean mask as long as the depth of arr
RECURSIVE BoolIndexFrom(_, _, _)
BoolIndexFrom(arr, mask, d) ==
  IF d > Len(arr) THEN <<>>
  ELSE (IF mask[d] THEN <<arr[d]>> ELSE <<>>) \o BoolIndexFrom(arr, mask, d + 1)

BoolIndex(arr, mask) == BoolIndexFrom(arr, mask, 1)

\* line 52 and line 53
FilterLabel(label, mask) == BoolIndex(label, mask)
KeepAllSlices(img, mask) == img
FilterImage(img, mask) == BoolIndex(img, mask)

\* the generators: a state is a number, a draw reads it and moves it on
RngNext(s) == (s + 1) % (MaxSeed + 1)
AngleOf(s) == (s % 3) - 1        \* rotation drawn from [-5, 5]
ScaleOf(s) == s % 2              \* scale drawn from [1, 1.25]

\* lines 56-57 and lines 61-62: random.seed(seed); torch.manual_seed(seed)
Reseed(seed, rngs) == [py |-> seed, torch |-> seed]
NoReseed(seed, rngs) == rngs
ReseedForTarget(seed, rngs) == Reseed(seed, rngs)

\* A transform chain of cross_validation.py on a volume.  "train": ToTensor,
\* RandomAffine (one angle and one scale for the whole volume), and for the
\* image clipping and normalisation; "valid": the same without RandomAffine.
ApplyTransforms(kind, vol, rngs, fill, chain) ==
  IF kind = "train"
  THEN LET s0 == IF affine_rng = "torch" THEN rngs.torch ELSE rngs.py
           angle == AngleOf(s0)
           s1 == RngNext(s0)
           scale == ScaleOf(s1)
           s2 == RngNext(s1)
       IN [out |-> [d \in 1..Len(vol) |->
                      [src |-> vol[d], angle |-> angle, scale |-> scale,
                       fill |-> fill, chain |-> chain]],
           params |-> <<angle, scale>>,
           rngs |-> IF affine_rng = "torch" THEN [rngs EXCEPT !.torch = s2]
                    ELSE [rngs EXCEPT !.py = s2]]
  ELSE [out |-> [d \in 1..Len(vol) |->
                   [src |-> vol[d], angle |-> 0, scale |-> 0,
                    fill |-> fill, chain |-> chain]],
        params |-> NoParams,
        rngs |-> rngs]

\* __init__ (lines 17-36): is_train is stored as the tuple (is_train,)
\* The methods class CustomDataLoader defines (lines 17, 38, 41).
CustomDataLoaderMethods == {"__init__", "__len__", "__getitem__"}

Adapters ==
  [skip_blank : BOOLEAN, is_train : {<<TRUE>>, <<FALSE>>},
   transforms : {"train", "valid"}]

ItemIdle ==
  /\ ipc = "idle"
  /\ called = "none"
  /\ raised = "none"
  /\ ds = [skip_blank |-> FALSE, is_train |-> <<FALSE>>, transforms |-> "valid"]
  /\ affine_rng = "torch"
  /\ py_rng = 0
  /\ torch_rng = 0
  /\ in_img = <<>>
  /\ in_label = <<>>
  /\ last_seed = 0
  /\ rng_at_img = [py |-> 0, torch |-> 0]
  /\ rng_at_label = [py |-> 0, torch |-> 0]
  /\ img_params = NoParams
  /\ label_params = NoParams
  /\ ret_img = <<>>
  /\ ret_label = <<>>

ItemInit ==
  /\ ipc = "ready"
  /\ called = "none"
  /\ raised = "none"
  /\ ds \in Adapters
  /\ affine_rng \in {"random", "torch"}
  /\ py_rng = 0
  /\ torch_rng = 0
  /\ in_img = <<>>
  /\ in_label = <<>>
  /\ last_seed = 0
  /\ rng_at_img = [py |-> 0, torch |-> 0]
  /\ rng_at_label = [py |-> 0, torch |-> 0]
  /\ img_params = NoParams
  /\ label_params = NoParams
  /\ ret_img = <<>>
  /\ ret_label = <<>>

\* __getitem__ (lines 41-66).  The file's label volume, the depth of its
\* image volume (equal, or one slice more) and the seed numpy draws are inputs.
GetItem ==
  /\ ipc = "ready"
  /\ \E label \in LabelVolumes, extra \in {0, 1}, seed \in Seeds :
       LET img == ImageOfDepth(Len(label) + extra)
           filter == ds.skip_blank /\ PyTruthy(ds.is_train)
           non_blanks == NonBlanks(label)
           label1 == IF filter THEN FilterLabel(label, non_blanks) ELSE label
           img1 == IF filter THEN FilterImage(img, non_blanks) ELSE img
           rngs0 == Reseed(seed, [py |-> py_rng, torch |-> torch_rng])
           ti == ApplyTransforms(ds.transforms, img1, rngs0, ImageFill, "image")
           rngs1 == ReseedForTarget(seed, ti.rngs)
           tl == ApplyTransforms(ds.transforms, label1, rngs1, LabelFill, "label")
       IN
         /\ in_img' = img
         /\ in_label' = label
         /\ called' = "__getitem__"
         /\ IF filter /\ Len(img) # Len(non_blanks)
            THEN \* IndexError: the boolean index does not match the depth of img
                 /\ ipc' = "error"
                 /\ raised' = "IndexError"
                 /\ UNCHANGED <<py_rng, torch_rng, last_seed, rng_at_img, rng_at_label,
                                img_params, label_params, ret_img, ret_label>>
            ELSE /\ ipc' = "returned"
                 /\ raised' = "none"
                 /\ last_seed' = seed
                 /\ rng_at_img' = rngs0
                 /\ rng_at_label' = rngs1
                 /\ img_params' = ti.params
                 /\ label_params' = tl.params
                 /\ ret_img' = ti.out
                 /\ ret_label' = tl.out
                 /\ py_rng' = tl.rngs.py
                 /\ torch_rng' = tl.rngs.torch
  /\ UNCHANGED <<ds, affine_rng>>
  /\ UNCHANGED <<orchVars, splitVars, batchVars>>

\* The data loader hands the returned example on and asks for the next one
\* (cross_validation.py, lines 163 and 185); the generators keep their state.
NextExample ==
  /\ ipc = "returned"
  /\ ipc' = "ready"
  /\ called' = "none"
  /\ raised' = "none"
  /\ in_img' = <<>>
  /\ in_label' = <<>>
  /\ last_seed' = 0
  /\ rng_at_img' = [py |-> 0, torch |-> 0]
  /\ rng_at_label' = [py |-> 0, torch |-> 0]
  /\ img_params' = NoParams
  /\ label_params' = NoParams
  /\ ret_img' = <<>>
  /\ ret_label' = <<>>
  /\ UNCHANGED <<ds, affine_rng, py_rng, torch_rng>>
  /\ UNCHANGED <<orchVars, splitVars, batchVars>>

\* train_dataset.reset_counters() (cross_validation.py, line 162, before the
\* batch loop of line 163): the attribute is looked up in the class of
\* lines 11-66; a name the class does not define raises AttributeError.
ResetCounters ==
  /\ ipc = "ready"
  /\ called' = "reset_counters"
  /\ IF "reset_counters" \in CustomDataLoaderMethods
     THEN ipc' = "ready" /\ raised' = "none"
     ELSE ipc' = "error" /\ raised' = "AttributeError"
  /\ UNCHANGED <<ds, affine_rng, py_rng, torch_rng, in_img, in_label, last_seed,
                 rng_at_img, rng_at_label, img_params, label_params, ret_img,
                 ret_label>>
  /\ UNCHANGED <<orchVars, splitVars, batchVars>>

----------------------------------------------------------------------------
\* Collation (loader.py, lines 100-113) and the validation loop's per-slice
\* inference (cross_validation.py, lines 185-196).  An example is the pair
\* <<image stack, label stack>>; a slice is named by the volume's position
\* in the batch and its depth position in the stack.

StackError == [ok |-> FALSE, val |-> <<"RuntimeError">>]
NoBatch == [data |-> <<>>, target |-> <<>>]

SliceOf(v, d, kind) == [vol |-> v, d |-> d, kind |-> kind]
StackOf(v, depth, kind) == [d \in 1..depth |-> SliceOf(v, d, kind)]
Example(v, depth) == <<StackOf(v, depth, "img"), StackOf(v, depth, "label")>>

\* itertools.chain(*stacks): the stacks' slices, one stack after the other
RECURSIVE ChainBackwards(_)
ChainBackwards(stacks) ==
  IF stacks = <<>> THEN <<>> ELSE ChainBackwards(Tail(stacks)) \o Head(stacks)

RECURSIVE Chain(_)
Chain(stacks) == IF stacks = <<>> THEN <<>> ELSE Head(stacks) \o Chain(Tail(stacks))

\* torch.stack of a list of tensors: a list without tensors is refused
TorchStack(list) == IF Len(list) = 0 THEN StackError ELSE [ok |-> TRUE, val |-> list]

\* tensor.unsqueeze(1): every entry gets a channel axis of length one
Unsqueeze1(t) == [j \in 1..Len(t) |-> <<t[j]>>]

\* torch.stack(list(itertools.chain(*stacks))).unsqueeze(1)
StackChained(stacks) ==
  LET t == TorchStack(Chain(stacks))
  IN IF t.ok THEN [ok |-> TRUE, val |-> Unsqueeze1(t.val)] ELSE StackError

\* custom_collate (lines 108-113)
custom_collate(b) ==
  LET data == StackChained([i \in 1..Len(b) |-> b[i][1]])
      target == StackChained([i \in 1..Len(b) |-> b[i][2]])
  IN IF data.ok /\ target.ok
     THEN [ok |-> TRUE, val |-> [data |-> data.val, target |-> target.val]]
     ELSE StackError

\* tensor[perm]: entry j of the result is entry perm[j] of the tensor
Index(t, perm) == [j \in 1..Len(perm) |-> t[perm[j] + 1]]

\* line 144: target = target[perm], the perm of line 140
ReversedPerm(perm) == [j \in 1..Len(perm) |-> perm[Len(perm) + 1 - j]]
TargetPerm(perm) == perm

\* custom_collate_permute (lines 138-146); perm is what torch.randperm
\* returned at line 140
custom_collate_permute(b, perm) ==
  LET data == StackChained([i \in 1..Len(b) |-> b[i][1]])
      target == StackChained([i \in 1..Len(b) |-> b[i][2]])
  IN IF data.ok /\ target.ok
     THEN [ok |-> TRUE, val |-> [data |-> Index(data.val, perm),
                                 target |-> Index(target.val, TargetPerm(perm))]]
     ELSE StackError

\* valid_collate is not part of the sources: the same concatenation, for
\* the one volume of a validation batch
valid_collate(b) == custom_collate(b)

\* torch.tensor_split(t, n): n consecutive chunks, the first len % n of them
\* one entry longer
RECURSIVE ChunkStart(_, _, _)
ChunkStart(len, n, i) ==
  IF i = 0 THEN 0
  ELSE ChunkStart(len, n, i - 1) + (len \div n) + (IF i - 1 < len % n THEN 1 ELSE 0)

tensor_split(t, n) ==
  [i \in 1..n |-> SubSeq(t, ChunkStart(Len(t), n, i - 1) + 1, ChunkStart(Len(t), n, i))]

\* model(split): one prediction per entry of its input
UNet(x) == [j \in 1..Len(x) |-> [pred_of |-> x[j]]]

\* line 195: output_ls.append(output)
PrependOutput(output_ls, o) == <<o>> \o output_ls
AppendOutput(output_ls, o) == Append(output_ls, o)

\* lines 192-196: the loop over image_split
RECURSIVE InferLoop(_, _, _)
InferLoop(image_split, i, output_ls) ==
  IF i > Len(image_split) THEN output_ls
  ELSE InferLoop(image_split, i + 1, AppendOutput(output_ls, UNet(image_split[i])))

\* lines 189-196
SplitInferStack(image) ==
  TorchStack(InferLoop(tensor_split(image, Len(image)), 1, <<>>))

BatchIdle ==
  /\ bpc = "idle"
  /\ loader_kind = "none"
  /\ batch = <<>>
  /\ collated = NoBatch
  /\ output = <<>>

BatchInit ==
  /\ bpc = "fetch"
  /\ loader_kind = "none"
  /\ batch = <<>>
  /\ collated = NoBatch
  /\ output = <<>>

\* the train loader fetches one more example; blank-slice filtering may
\* have left it without slices
FetchTrain ==
  /\ bpc = "fetch"
  /\ loader_kind \in {"none", "train", "train_permute"}
  /\ Len(batch) < MaxBatch
  /\ \E depth \in 0..MaxDepth : batch' = Append(batch, Example(Len(batch) + 1, depth))
  /\ IF loader_kind = "none"
     THEN loader_kind' \in {"train", "train_permute"}
     ELSE loader_kind' = loader_kind
  /\ UNCHANGED <<bpc, collated, output>>
  /\ UNCHANGED <<orchVars, splitVars, itemVars>>

\* the validation loader (batch_size = 1) fetches its one whole volume
FetchValid ==
  /\ bpc = "fetch"
  /\ loader_kind = "none"
  /\ \E depth \in 1..MaxDepth : batch' = <<Example(1, depth)>>
  /\ loader_kind' = "valid"
  /\ UNCHANGED <<bpc, collated, output>>
  /\ UNCHANGED <<orchVars, splitVars, itemVars>>

\* train collation of the fetched examples
Collate ==
  /\ bpc = "fetch"
  /\ loader_kind = "train"
  /\ LET r == custom_collate(batch) IN
       IF r.ok
       THEN bpc' = "collated" /\ collated' = r.val
       ELSE bpc' = "error" /\ collated' = collated
  /\ UNCHANGED <<loader_kind, batch, output>>
  /\ UNCHANGED <<orchVars, splitVars, itemVars>>

\* train collation with the permuting collator; torch.randperm is drawn for
\* the stacked data, after the stacking of line 139 succeeded
CollatePermute ==
  /\ bpc = "fetch"
  /\ loader_kind = "train_permute"
  /\ LET n == Len(Chain([i \in 1..Len(batch) |-> batch[i][1]])) IN
       /\ n <= MaxPerm
       /\ IF n = 0
          THEN bpc' = "error" /\ collated' = collated
          ELSE \E perm \in Permutations0(n) :
                 LET r == custom_collate_permute(batch, perm) IN
                   IF r.ok
                   THEN bpc' = "permuted" /\ collated' = r.val
                   ELSE bpc' = "error" /\ collated' = collated
  /\ UNCHANGED <<loader_kind, batch, output>>
  /\ UNCHANGED <<orchVars, splitVars, itemVars>>

\* one step of the validation loop: the collated volume is split into its
\* slices, each is predicted, the predictions are stacked
ValidationStep ==
  /\ bpc = "fetch"
  /\ loader_kind = "valid"
  /\ LET r == valid_collate(batch) IN
       IF r.ok
       THEN LET o == SplitInferStack(r.val.data) IN
              /\ collated' = r.val
              /\ output' = IF o.ok THEN o.val ELSE output
              /\ bpc' = IF o.ok THEN "inferred" ELSE "error"
       ELSE bpc' = "error" /\ collated' = collated /\ output' = output
  /\ UNCHANGED <<loader_kind, batch>>
  /\ UNCHANGED <<orchVars, splitVars, itemVars>>

----------------------------------------------------------------------------
OrchStart ==
  /\ pc = "fold_init"
  /\ fold = 0
  /\ epoch = 0
  /\ epoch_start = 0
  /\ loaded_loss_min = Inf
  /\ valid_loss_min = Inf
  /\ valid_iou_min = Inf
  /\ epochs_no_improve = 0
  /\ total_valid_loss = <<>>
  /\ total_valid_3d_score = <<>>
  /\ improved = <<>>
  /\ broke = FALSE
  /\ min_ious = <<>>
  /\ ckp_best = NoCkp
  /\ ckp_snaps = {}
  /\ saved = <<>>
  /\ load_calls = <<>>
  /\ loaded_ckp = NoCkp
  /\ model = NoModel
  /\ printed = NoLine
  /\ summary_args = <<>>
  /\ fold_reports = {}

OrchInit == OrchStart /\ recording = FALSE

OrchOnly == UNCHANGED <<splitVars, itemVars, batchVars>>

Init == OrchInit /\ SplitIdle /\ ItemIdle /\ BatchIdle

\* lines 57-149: one iteration of the fold loop up to the epoch loop
FoldInit ==
  /\ pc = "fold_init"
  /\ \E onDisk \in CkpOnDisk(BestModelName(fold)[2]) :
       LET r == load_ckp(onDisk) IN
         /\ load_calls' = <<BestModelName(fold)>>
         /\ loaded_ckp' = onDisk
         /\ model' = NewModel(fold, onDisk)
         /\ ckp_best' = onDisk
         /\ epoch_start' = r.epoch_start
         /\ loaded_loss_min' = r.valid_loss_min
         /\ valid_loss_min' = r.valid_loss_min
         /\ epoch' = r.epoch_start
         /\ pc' = IF r.epoch_start < EpochRangeEnd(r.epoch_start)
                  THEN "epoch" ELSE "fold_end"
  /\ valid_iou_min' = Inf
  /\ epochs_no_improve' = FreshNoImprove(epochs_no_improve)
  /\ total_valid_loss' = <<>>
  /\ total_valid_3d_score' = <<>>
  /\ improved' = <<>>
  /\ broke' = FALSE
  /\ ckp_snaps' = {}
  /\ saved' = <<>>
  /\ printed' = <<"Number of files: ">>
  /\ UNCHANGED <<fold, min_ious, summary_args, recording, fold_reports>>
  /\ OrchOnly

\* lines 150-280: one epoch (training loop, validation loop, logging,
\* checkpoint rule, early stopping)
Epoch ==
  /\ pc = "epoch"
  /\ \E loss \in LossValues, score \in ScoreValues :
       LET tvl == Append(total_valid_loss, loss)
           tvs == Append(total_valid_3d_score, score)
           imp == IsImproved(Last(tvl), valid_loss_min)
           eni == NewNoImprove(imp, epochs_no_improve)
           stop == EarlyStop(eni)
           calls == SaveCalls(imp, fold, epoch, Last(tvl))
           store == RunSaves(calls, [best |-> ckp_best, snaps |-> ckp_snaps])
       IN
         /\ total_valid_loss' = tvl
         /\ total_valid_3d_score' = tvs
         /\ improved' = Append(improved, imp)
         /\ saved' = Append(saved, calls)
         /\ ckp_best' = store.best
         /\ ckp_snaps' = store.snaps
         /\ epochs_no_improve' = eni
         /\ valid_loss_min' = NewLossMin(imp, Last(tvl), valid_loss_min)
         /\ valid_iou_min' = NewValidIou(imp, Last(tvs), valid_iou_min)
         /\ printed' = IF imp
                       THEN <<"Validation loss decreased", valid_loss_min, Last(tvl)>>
                       ELSE <<"Valid Loss", Last(tvl), "Valid 3D IoU", Last(tvs)>>
         /\ broke' = stop
         /\ IF stop \/ epoch + 1 >= EpochRangeEnd(epoch_start)
            THEN pc' = "fold_end" /\ epoch' = epoch
            ELSE pc' = "epoch" /\ epoch' = epoch + 1
  /\ UNCHANGED <<fold, epoch_start, loaded_loss_min, min_ious, summary_args,
                 load_calls, loaded_ckp, model, recording, fold_reports>>
  /\ OrchOnly

\* lines 282-287: the fold's result and report, then the next fold
FoldEnd ==
  /\ pc = "fold_end"
  /\ min_ious' = Append(min_ious, valid_iou_min)
  /\ printed' = PyFormat(FoldReportTemplate, <<valid_loss_min, valid_iou_min>>)
  /\ IF printed' = FormatError
     THEN pc' = "error" /\ fold' = fold
     ELSE IF fold + 1 < k_folds
          THEN pc' = "fold_init" /\ fold' = fold + 1
          ELSE pc' = "final" /\ fold' = fold
  /\ fold_reports' = IF recording
                     THEN fold_reports \cup {[line |-> printed', early |-> broke]}
                     ELSE fold_reports
  /\ UNCHANGED <<epoch, epoch_start, loaded_loss_min, valid_loss_min, valid_iou_min,
                 epochs_no_improve, total_valid_loss, total_valid_3d_score,
                 improved, broke, ckp_best, ckp_snaps, saved, load_calls,
                 loaded_ckp, model, summary_args, recording>>
  /\ OrchOnly

\* lines 289-293: the final summary
FinalReport ==
  /\ pc = "final"
  /\ summary_args' = <<NpMean(min_ious), NpStd(min_ious)>>
  /\ LET line == PyFormat(FinalReportTemplate, summary_args') IN
       IF line = FormatError
       THEN pc' = "error" /\ printed' = printed
       ELSE pc' = "done" /\ printed' = line
  /\ UNCHANGED <<fold, epoch, epoch_start, loaded_loss_min, valid_loss_min,
                 valid_iou_min, epochs_no_improve, total_valid_loss,
                 total_valid_3d_score, improved, broke, min_ious, ckp_best,
                 ckp_snaps, saved, load_calls, loaded_ckp, model, recording,
                 fold_reports>>
  /\ OrchOnly

Next == FoldInit \/ Epoch \/ FoldEnd \/ FinalReport

Spec == Init /\ [][Next]_vars

\* The script is one sequential process: whenever a step is possible it is taken.
FairSpec == Init /\ [][Next]_vars /\ WF_vars(Next)

\* The same run with every fold's report kept next to the way the fold's
\* epoch loop ended (break of line 280, or the range of line 149 used up).
InitRecorded == OrchStart /\ recording = TRUE /\ SplitIdle /\ ItemIdle /\ BatchIdle
SpecRecorded == InitRecorded /\ [][Next]_vars

\* The k-fold split on its own, for every file count and fold count.
InitSplit == OrchInit /\ SplitInit /\ ItemIdle /\ BatchIdle
NextSplit == SplitNext
SpecSplit == InitSplit /\ [][NextSplit]_vars

\* One dataset adapter and the calls of its __getitem__.
InitItem == OrchInit /\ SplitIdle /\ ItemInit /\ BatchIdle
NextItem == GetItem \/ NextExample \/ ResetCounters
SpecItem == InitItem /\ [][NextItem]_vars

\* Batches of examples: train collation, and the validation loop's split,
\* per-slice inference and restacking.
InitBatch == OrchInit /\ SplitIdle /\ ItemIdle /\ BatchInit
NextBatch == FetchTrain \/ FetchValid \/ Collate \/ CollatePermute \/ ValidationStep
SpecBatch == InitBatch /\ [][NextBatch]_vars

----------------------------------------------------------------------------
\* Helpers of the properties

MinOf(S) == CHOOSE x \in S : \A y \in S : x <= y
MaxOf(S) == CHOOSE x \in S : \A y \in S : y <= x
Range(s) == {s[i] : i \in 1..Len(s)}

\* Best validation loss known before epoch i of the current fold: the loss
\* load_ckp returned and the losses of the epochs 1..i-1.
BestBefore(i) == MinOf({loaded_loss_min} \cup {total_valid_loss[j] : j \in 1..(i - 1)})

\* Number of consecutive NOT_IMPROVED epochs ending with epoch i.
RECURSIVE NoImproveRun(_, _)
NoImproveRun(flags, i) ==
  IF i = 0 \/ flags[i] THEN 0 ELSE 1 + NoImproveRun(flags, i - 1)

Exceeds(i) == NoImproveRun(improved, i) > max_epochs_no_improve

EpochsRun == Len(improved)
LoopOver == pc \in {"fold_end"}

\* C1: an epoch is IMPROVED exactly when its mean validation loss is at most
\* the best validation loss seen so far in the fold (ties improve); from a
\* fresh fold the losses 0.5, 0.5, 0.4, 0.6 give the flags T, T, T, F.
C1_ImprovedIffLeqBest ==
  /\ Len(improved) = Len(total_valid_loss)
  /\ \A i \in 1..Len(improved) :
       improved[i] <=> (total_valid_loss[i] <= BestBefore(i))
  /\ (loaded_loss_min = Inf /\ total_valid_loss = <<5, 5, 4, 6>>)
       => improved = <<TRUE, TRUE, TRUE, FALSE>>

C1_Witness ==
  /\ loaded_loss_min = Inf
  /\ total_valid_loss = <<5, 5, 4, 6>>
  /\ improved = <<TRUE, TRUE, TRUE, FALSE>>

\* C2: the epoch loop stops by early stopping exactly after the first epoch
\* whose run of NOT_IMPROVED epochs exceeds max_epochs_no_improve: no epoch
\* before the last one exceeds it, the break is taken exactly when the last
\* epoch exceeds it, and the loop does not go on after it.  When the only
\* improvement is epoch 1 the loop stops after epoch 1 + max + 1 (4 for a
\* maximum of 2).
C2_StopsAtFirstExceed ==
  /\ \A i \in 1..(EpochsRun - 1) : ~Exceeds(i)
  /\ broke <=> (EpochsRun > 0 /\ Exceeds(EpochsRun))
  /\ broke => pc # "epoch"
  /\ ( /\ LoopOver
       /\ num_epochs >= max_epochs_no_improve + 2
       /\ EpochsRun >= 1
       /\ improved[1]
       /\ \A i \in 2..EpochsRun : ~improved[i] )
       => (EpochsRun = 1 + max_epochs_no_improve + 1 /\ broke)

C2_Witness ==
  /\ pc = "fold_end"
  /\ broke
  /\ max_epochs_no_improve = 2
  /\ improved = <<TRUE, FALSE, FALSE, FALSE>>

\* C3: no fold runs more than num_epochs epochs, also when resumed at
\* epoch_start > 0; the loop is over exactly after the break or after
\* num_epochs epochs of this fold, whichever comes first; and every epoch
\* loop that is running ends.
C3_BudgetInv ==
  /\ EpochsRun <= num_epochs
  /\ epoch < epoch_start + num_epochs
  /\ pc = "epoch" => (~broke /\ EpochsRun < num_epochs /\ EpochsRun = epoch - epoch_start)
  /\ LoopOver => (broke \/ EpochsRun = num_epochs)
  /\ LoopOver => EpochsRun = epoch - epoch_start + 1

C3_FoldTerminatesWithinBudget ==
  /\ []C3_BudgetInv
  /\ (pc = "epoch") ~> (pc = "fold_end")

C3_Witness ==
  /\ pc = "fold_end"
  /\ epoch_start > 0
  /\ ~broke
  /\ EpochsRun = num_epochs

\* Folds whose result has been appended to min_ious.
FoldsFinished == IF pc \in {"final", "done", "error"} THEN k_folds ELSE fold

\* The state right after a fold's result was recorded (lines 282-287).
JustRecorded == pc = "final" \/ (pc = "fold_init" /\ fold > 0)

ImprovedEpochs == {i \in 1..Len(improved) : improved[i]}

\* 3D score of the fold's last IMPROVED epoch, np.Inf when there is none.
ScoreAtLastImproved ==
  IF ImprovedEpochs = {} THEN Inf ELSE total_valid_3d_score[MaxOf(ImprovedEpochs)]

SumTo(s, n) == LET f[i \in 0..n] == IF i = 0 THEN 0 ELSE f[i - 1] + s[i] IN f[n]

\* C9 as stated: one value per fold, the best (largest) 3D overlap score of
\* the fold's epochs.
C9_RecordsBestScore ==
  /\ Len(min_ious) = FoldsFinished
  /\ JustRecorded => Last(min_ious) = MaxOf(Range(total_valid_3d_score))

\* C9 amended: one value per fold, the 3D overlap score of the fold's last
\* IMPROVED epoch (the latest epoch with the fold's lowest validation loss),
\* np.Inf when no epoch of the fold improved; the arguments of the final
\* summary are the mean and the standard deviation of these k values.
C9_RecordsScoreOfBestLossEpoch ==
  /\ Len(min_ious) = FoldsFinished
  /\ JustRecorded => Last(min_ious) = ScoreAtLastImproved
  /\ (JustRecorded /\ ImprovedEpochs # {}) =>
       LET e == MaxOf(ImprovedEpochs) IN
         /\ total_valid_loss[e] = MinOf(Range(total_valid_loss))
         /\ \A j \in (e + 1)..Len(total_valid_loss) :
              total_valid_loss[j] > total_valid_loss[e]
  /\ summary_args # <<>> =>
       /\ Len(min_ious) = k_folds
       /\ IF Inf \in Range(min_ious)
          THEN summary_args = <<<<Inf, 1>>, <<NaN, 0>>>>
          ELSE /\ summary_args[1] = <<SumTo(min_ious, k_folds), k_folds>>
               /\ summary_args[2][2] = k_folds * k_folds
               /\ summary_args[2][1] =
                    k_folds * SumTo([i \in 1..k_folds |-> min_ious[i] * min_ious[i]], k_folds)
                    - SumTo(min_ious, k_folds) * SumTo(min_ious, k_folds)

C9_Witness ==
  /\ pc = "final"
  /\ Len(min_ious) = k_folds
  /\ Last(min_ious) = ScoreAtLastImproved
  /\ Last(min_ious) # Inf
  /\ Last(min_ious) < MaxOf(Range(total_valid_3d_score))

\* C10: after the last fold the final summary line is printed and the run
\* ends normally: the final report never ends in an error.
C10_FinalSummaryEmitted ==
  /\ pc # "error"
  /\ pc = "done" => (printed # FormatError /\ printed # NoLine)

AllIds == 0..(n_files - 1)
SeqSet(s) == {s[i] : i \in 1..Len(s)}
NoRepeat(s) == \A i, j \in 1..Len(s) : s[i] = s[j] => i = j

\* C4: the dev subsets of the folds are pairwise disjoint, after the k-th
\* fold every file index lies in exactly one dev subset, and in each fold
\* train and dev indices are disjoint and cover all indices.
C4_FoldsPartition ==
  /\ \A a, b \in 1..Len(dev_seen) : a # b => SeqSet(dev_seen[a]) \cap SeqSet(dev_seen[b]) = {}
  /\ \A a \in 1..Len(dev_seen) : NoRepeat(dev_seen[a]) /\ SeqSet(dev_seen[a]) \subseteq AllIds
  /\ (n_splits >= 2 /\ split_fold = n_splits) =>
       /\ Len(dev_seen) = n_splits
       /\ \A x \in AllIds : Cardinality({a \in 1..Len(dev_seen) : x \in SeqSet(dev_seen[a])}) = 1
  /\ dev_ids # <<>> =>
       /\ SeqSet(train_ids) \cap SeqSet(dev_ids) = {}
       /\ SeqSet(train_ids) \cup SeqSet(dev_ids) = AllIds
       /\ NoRepeat(train_ids)
       /\ Len(train_ids) + Len(dev_ids) = n_files

C4_Witness ==
  /\ n_files = 3
  /\ n_splits = 2
  /\ split_fold = n_splits
  /\ Len(dev_seen[1]) = 2
  /\ Len(dev_seen[2]) = 1
  /\ SeqSet(dev_seen[1]) \cup SeqSet(dev_seen[2]) = AllIds

\* Depth indices of the loaded label whose slice is not entirely zero.
KeptDepths == {d \in 1..Len(in_label) : \E v \in 1..Len(in_label[d]) : in_label[d][v] # 0}
BlankDepths == (1..Len(in_label)) \ KeptDepths

\* The j-th smallest kept depth index.
NthKept(j) == CHOOSE d \in KeptDepths : Cardinality({e \in KeptDepths : e <= d}) = j

Srcs(stack) == [j \in 1..Len(stack) |-> stack[j].src]

TrainFiltering == ds.skip_blank /\ ds.is_train = <<TRUE>>

\* C5: with blank-slice filtering on the train adapter, the returned image
\* and label hold exactly the depth slices whose label slice is not all
\* zero, the same depth indices for both, in their original order; blank
\* label slices at (0-based) indices 1 and 3 of a depth-4 volume leave the
\* slices 0 and 2 of both.
C5_BlankSlicesRemoved ==
  (ipc = "returned" /\ TrainFiltering) =>
    /\ Len(ret_img) = Cardinality(KeptDepths)
    /\ Len(ret_label) = Cardinality(KeptDepths)
    /\ \A j \in 1..Len(ret_img) :
         /\ ret_img[j].src = in_img[NthKept(j)]
         /\ ret_label[j].src = in_label[NthKept(j)]
    /\ (Len(in_label) = 4 /\ BlankDepths = {2, 4}) => Srcs(ret_img) = <<1, 3>>

C5_Witness ==
  /\ ipc = "returned"
  /\ TrainFiltering
  /\ Len(in_label) = 4
  /\ Len(in_img) = 4
  /\ BlankDepths = {2, 4}
  /\ Srcs(ret_img) = <<1, 3>>
  /\ Srcs(ret_label) = <<in_label[1], in_label[3]>>

\* C8: in a call on the train adapter the generators are in the same state
\* (the one drawn seed) when the label chain starts as when the image chain
\* started, so label and image get the same rotation and scale; only the
\* fill values differ.
C8_SameDrawForImageAndLabel ==
  (ipc = "returned" /\ ds.transforms = "train") =>
    /\ rng_at_img = [py |-> last_seed, torch |-> last_seed]
    /\ rng_at_label = rng_at_img
    /\ label_params = img_params
    /\ img_params # NoParams
    /\ Len(ret_img) = Len(ret_label) =>
         \A j \in 1..Len(ret_img) :
           /\ ret_label[j].angle = ret_img[j].angle
           /\ ret_label[j].scale = ret_img[j].scale
           /\ ret_img[j].fill = ImageFill
           /\ ret_label[j].fill = LabelFill

C8_Witness ==
  /\ ipc = "returned"
  /\ ds.transforms = "train"
  /\ Len(ret_img) >= 2
  /\ Len(ret_label) = Len(ret_img)
  /\ img_params = <<1, 1>>
  /\ label_params = <<1, 1>>
  /\ ret_img[1].fill # ret_label[1].fill

\* Depth of the v-th example of the batch, and the slices before example v.
DepthOfExample(v) == Len(batch[v][1])
SlicesBefore(v) == LET f[i \in 0..Len(batch)] ==
                         IF i = 0 THEN 0 ELSE f[i - 1] + DepthOfExample(i)
                   IN f[v - 1]
TotalDepth == SlicesBefore(Len(batch) + 1)

\* The example that slice position j of the concatenation belongs to.
VolumeAt(j) == CHOOSE v \in 1..Len(batch) :
                 SlicesBefore(v) < j /\ j <= SlicesBefore(v) + DepthOfExample(v)

CollateTried == loader_kind = "train" /\ bpc # "fetch"

CollatedInOrder ==
  /\ bpc = "collated"
  /\ Len(collated.data) = TotalDepth
  /\ Len(collated.target) = TotalDepth
  /\ \A j \in 1..TotalDepth :
       /\ collated.data[j] = <<SliceOf(VolumeAt(j), j - SlicesBefore(VolumeAt(j)), "img")>>
       /\ collated.target[j] = <<SliceOf(VolumeAt(j), j - SlicesBefore(VolumeAt(j)), "label")>>

\* C6 as stated: train collation of any batch yields image and label tensors
\* of sum(di) slices, in batch order then depth order, slice j of both from
\* the same volume and depth position.
C6_CollateConcatenates == CollateTried => CollatedInOrder

\* C6 amended: the same for every batch that holds at least one slice; a
\* batch whose stacks are all empty is refused by torch.stack.
C6_CollateConcatenatesNonEmpty ==
  CollateTried => (IF TotalDepth >= 1 THEN CollatedInOrder ELSE bpc = "error")

C6_Witness ==
  /\ bpc = "collated"
  /\ Len(batch) = 3
  /\ DepthOfExample(1) = 2
  /\ DepthOfExample(2) = 0
  /\ DepthOfExample(3) = 2
  /\ collated.data[3] = <<SliceOf(3, 1, "img")>>
  /\ collated.target[4] = <<SliceOf(3, 2, "label")>>

\* C7: the validation loop's split, per-slice inference and restacking of a
\* volume of depth D gives exactly D outputs, output i being the prediction
\* for input slice i.
C7_RestackKeepsDepthOrder ==
  (loader_kind = "valid" /\ bpc # "fetch") =>
    /\ bpc = "inferred"
    /\ Len(output) = DepthOfExample(1)
    /\ \A i \in 1..DepthOfExample(1) :
         output[i] = <<[pred_of |-> <<SliceOf(1, i, "img")>>]>>

C7_Witness ==
  /\ bpc = "inferred"
  /\ DepthOfExample(1) = 3
  /\ Len(output) = 3
  /\ output[3][1].pred_of[1].d = 3

----------------------------------------------------------------------------
\* Checkpoint files, fold start, fold report

InFold == pc \in {"epoch", "fold_end"}

\* The 1-based number of the i-th epoch run in the current fold.
EpochNumber(i) == epoch_start + i

\* C11: in a fold every epoch makes at most one checkpoint write, and only
\* an IMPROVED epoch makes one: a NOT_IMPROVED epoch writes nothing, an
\* IMPROVED epoch of fold N (1-based) with epoch number M (1-based) writes
\* fold<N>_epoch<M>.pt and bestmodel_fold<N>.pt, holding N, M and that
\* epoch's mean validation loss as the best validation loss; the files on
\* disk are exactly the results of these writes.
C11_CheckpointOnlyOnImprovement ==
  InFold =>
    /\ Len(saved) = Len(improved)
    /\ \A i \in 1..Len(saved) :
         /\ Len(saved[i]) <= 1
         /\ ~improved[i] => saved[i] = <<>>
         /\ improved[i] =>
              /\ Len(saved[i]) = 1
              /\ saved[i][1].checkpoint_path =
                   <<"fold", fold + 1, "_epoch", EpochNumber(i), ".pt">>
              /\ saved[i][1].best_model_path = <<"bestmodel_fold", fold + 1, ".pt">>
              /\ saved[i][1].is_best
              /\ saved[i][1].state =
                   [fold |-> fold + 1, epoch |-> EpochNumber(i),
                    valid_loss_min |-> total_valid_loss[i]]
    /\ ckp_snaps =
         {<<"fold", fold + 1, "_epoch", EpochNumber(i), ".pt">> : i \in ImprovedEpochs}
    /\ ckp_best =
         IF ImprovedEpochs = {} THEN loaded_ckp
         ELSE [fold |-> fold + 1, epoch |-> EpochNumber(MaxOf(ImprovedEpochs)),
               valid_loss_min |-> total_valid_loss[MaxOf(ImprovedEpochs)]]

\* Second fold, resumed from epoch 1: epochs 2 and 4 improve, epoch 3 does not.
C11_Witness ==
  /\ pc = "epoch"
  /\ fold = 1
  /\ epoch_start = 1
  /\ improved = <<TRUE, FALSE, TRUE>>
  /\ saved[2] = <<>>
  /\ ckp_snaps = {<<"fold", 2, "_epoch", 2, ".pt">>, <<"fold", 2, "_epoch", 4, ".pt">>}
  /\ ckp_best = [fold |-> 2, epoch |-> 4, valid_loss_min |-> 4]

\* C12: when a fold starts, load_ckp is called exactly once, before the
\* fold's first epoch, with the name of that fold's best file.  A missing
\* file is not an error: the fold then runs with an untrained model from
\* epoch 0 without a best validation loss, so that its first epoch is
\* IMPROVED whatever its loss; the run fails nowhere before the final report.
C12_OneLoadAbsentIsFresh ==
  /\ InFold =>
       /\ load_calls = << <<"bestmodel_fold", fold + 1, ".pt">> >>
       /\ loaded_ckp = NoCkp =>
            /\ epoch_start = 0
            /\ loaded_loss_min = Inf
            /\ model.weights = <<"untrained", 0, 0>>
            /\ EpochsRun >= 1 => (improved[1] /\ EpochNumber(1) = 1)
  /\ (pc = "epoch" /\ EpochsRun = 0) =>
       (epoch = epoch_start /\ valid_loss_min = loaded_loss_min /\ saved = <<>>)
  /\ pc = "error" => Len(min_ious) = k_folds

\* The second fold found no file and its first epoch, with the largest
\* loss, counted as an improvement.
C12_Witness ==
  /\ pc = "fold_end"
  /\ fold = 1
  /\ loaded_ckp = NoCkp
  /\ total_valid_loss[1] = 6
  /\ improved[1]
  /\ load_calls = << <<"bestmodel_fold", 2, ".pt">> >>

\* C13: the final report of a fold tells whether the fold's epoch loop ended
\* by early stopping or by using up its epoch budget: two fold reports with
\* the same text never belong to folds that ended in different ways.
C13_ReportTellsHowFoldEnded ==
  \A a, b \in fold_reports : a.line = b.line => a.early = b.early

\* C14: the call of reset_counters() that opens every epoch, before the
\* epoch's first training batch is fetched, is served by the train adapter:
\* the adapter has the operation and the call returns.
C14_ResetCountersServed ==
  called = "reset_counters" => (raised = "none" /\ ipc = "ready")

\* C15: an adapter constructed with is_train = False returns every depth
\* slice of the loaded image and label, all-zero label slices included,
\* whatever its skip_blank setting.
C15_ValidationKeepsEverySlice ==
  (ipc = "returned" /\ ds.is_train = <<FALSE>>) =>
    /\ Srcs(ret_img) = in_img
    /\ Srcs(ret_label) = in_label

\* C18: an example whose image and label volumes differ in depth makes
\* __getitem__ end in an error; a returned pair always has equal depths.
C18_DepthMismatchIsFatal ==
  /\ (called = "__getitem__" /\ Len(in_img) # Len(in_label)) => ipc = "error"
  /\ ipc = "returned" => Len(ret_img) = Len(ret_label)

\* Position of a name in the sorted list of the names of a directory.
RankIn(name, listing) == Cardinality({x \in SeqSet(listing) : x <= name})

\* Positions j (0-based) of an adapter built on the two lists.
PairedBySortedIndex(adapter_files, adapter_labels, ids) ==
  /\ Len(adapter_files) = Len(ids)
  /\ Len(adapter_labels) = Len(ids)
  /\ \A j \in 0..(Len(ids) - 1) :
       LET pair == PairAt(adapter_files, adapter_labels, j) IN
         /\ pair.img_name \in SeqSet(listed_files)
         /\ pair.label_name \in SeqSet(listed_labels)
         /\ RankIn(pair.img_name, listed_files) = ids[j + 1] + 1
         /\ RankIn(pair.label_name, listed_labels) = ids[j + 1] + 1

\* C16: in every fold, at every position of the train adapter and of the
\* validation adapter, the image file and the label file are the entries of
\* the sorted image listing and of the sorted label listing at one and the
\* same index, the fold's index for that position.
C16_PairedBySortedIndex ==
  split_fold >= 1 =>
    /\ PairedBySortedIndex(files_train, labels_train, train_ids)
    /\ PairedBySortedIndex(files_dev, labels_dev, dev_ids)

\* The image directory lists ascending and the label directory descending;
\* the train adapter of a fold holds two files, the dev adapter two.
C16_Witness ==
  /\ split_fold >= 1
  /\ n_files = 4
  /\ listed_files[1] < listed_files[2]
  /\ listed_labels[1] > listed_labels[2]
  /\ Len(files_train) = 2
  /\ Len(files_dev) = 2
  /\ files_train[1] + 1 = labels_train[1]
  /\ files_dev[2] + 1 = labels_dev[2]

\* The slices of the batch, as entries of the collated image tensor.
BatchImageSlices ==
  UNION { {<<SliceOf(v, d, "img")>> : d \in 1..DepthOfExample(v)} : v \in 1..Len(batch) }

\* C17: the permuting collator reorders the image tensor and the label
\* tensor by one and the same permutation: at every output position the
\* image slice and the label slice come from the same volume and the same
\* depth position, and the output holds every slice of the non-permuted
\* collation exactly once.
C17_PermuteKeepsPairs ==
  bpc = "permuted" =>
    /\ Len(collated.data) = TotalDepth
    /\ Len(collated.target) = TotalDepth
    /\ \A j \in 1..TotalDepth :
         /\ collated.data[j][1].kind = "img"
         /\ collated.target[j][1].kind = "label"
         /\ collated.data[j][1].vol = collated.target[j][1].vol
         /\ collated.data[j][1].d = collated.target[j][1].d
    /\ {collated.data[j] : j \in 1..TotalDepth} = BatchImageSlices
    /\ Cardinality(BatchImageSlices) = TotalDepth

\* Three slices of two volumes come out in the order 2/2, 1/1, 2/1.
C17_Witness ==
  /\ bpc = "permuted"
  /\ Len(batch) = 2
  /\ DepthOfExample(1) = 1
  /\ DepthOfExample(2) = 2
  /\ collated.data = << <<SliceOf(2, 2, "img")>>, <<SliceOf(1, 1, "img")>>,
                        <<SliceOf(2, 1, "img")>> >>
  /\ collated.target[1] = <<SliceOf(2, 2, "label")>>

FirstEpochAhead == pc = "epoch" /\ EpochsRun = 0

\* C19: the folds run one after the other, and each starts its early
\* stopping afresh: a fold runs only when every earlier fold has ended; its
\* model and optimizer were created in this fold, untrained or resumed from
\* this fold's own checkpoint; before its first epoch the no-improve counter
\* is 0 and the best validation loss is the one of its own checkpoint (none
\* without one); throughout the fold the counter and the best loss are
\* determined by this fold's checkpoint and epochs alone.
C19_FoldsStartAfresh ==
  InFold =>
    /\ Len(min_ious) = fold
    /\ model.created_in = fold
    /\ model.weights = IF loaded_ckp = NoCkp THEN <<"untrained", 0, 0>>
                       ELSE <<"checkpoint", fold + 1, loaded_ckp.epoch>>
    /\ FirstEpochAhead =>
         /\ epochs_no_improve = 0
         /\ valid_loss_min = loaded_loss_min
         /\ valid_iou_min = Inf
         /\ loaded_ckp = NoCkp => valid_loss_min = Inf
         /\ ~broke
    /\ epochs_no_improve = NoImproveRun(improved, EpochsRun)
    /\ valid_loss_min = MinOf({loaded_loss_min} \cup Range(total_valid_loss))

\* The first fold never improved (its result is np.Inf) and ended by early
\* stopping; the second fold, without a checkpoint, is about to run its
\* first epoch.
C19_Witness ==
  /\ FirstEpochAhead
  /\ fold = 1
  /\ min_ious = <<Inf>>
  /\ loaded_ckp = NoCkp
  /\ epochs_no_improve = 0
  /\ valid_loss_min = Inf
  /\ model.created_in = 1

C20_Inv ==
  /\ valid_loss_min = MinOf({loaded_loss_min} \cup Range(total_valid_loss))
  /\ \A i \in 1..EpochsRun : valid_loss_min <= total_valid_loss[i]
  /\ valid_loss_min <= loaded_loss_min
  /\ epochs_no_improve = Cardinality({i \in 1..EpochsRun : \A j \in i..EpochsRun : ~improved[j]})
  /\ epochs_no_improve \in 0..(max_epochs_no_improve + 1)

\* C20: within a fold the best validation loss never increases from one
\* epoch to the next, and after every epoch it is the minimum of the loss
\* the fold started with and the losses of the fold's epochs so far; the
\* no-improve counter is the number of most recent consecutive NOT_IMPROVED
\* epochs and lies within 0..max_epochs_no_improve + 1.
C20_BestLossNeverIncreases ==
  /\ []C20_Inv
  /\ [][pc = "epoch" => valid_loss_min' <= valid_loss_min]_vars

\* A resumed fold (best loss 0.5 on disk) improved to 0.4 and then ran three
\* epochs without improvement.
C20_Witness ==
  /\ pc = "fold_end"
  /\ loaded_loss_min = 5
  /\ total_valid_loss = <<4, 5, 5, 5>>
  /\ valid_loss_min = 4
  /\ epochs_no_improve = max_epochs_no_improve + 1

====
